---- MODULE Spec2Model ----
(***************************************************************************)
(* Model of examples/shortener.rs: the axum URL shortener backed by the    *)
(* Postgres table urls(id CHAR(6) PRIMARY KEY, url TEXT NOT NULL UNIQUE).  *)
(*                                                                         *)
(* Every HTTP request is a task that suspends at exactly one await on the  *)
(* database.  A request therefore moves                                    *)
(*     idle -> query -> answered -> done                                   *)
(* where "query" is the statement in flight, "answered" is the statement   *)
(* executed and its result on the way back to the handler, and "done" is   *)
(* the response written.  The tower timeout layer can abandon a request    *)
(* at either in-flight point; a statement already sent may still be        *)
(* executed by the server afterwards ("orphan").  Each SQL statement is    *)
(* executed atomically by the database.                                    *)
(***************************************************************************)
EXTENDS Naturals, Sequences, FiniteSets

\* ---------------------------------------------------------------- bounds

\* Number of HTTP requests in one behaviour.
NumReq == 2

\* Number of distinct codes the generator can propose.
NumCodes == 2

\* ---------------------------------------------------------------- values

BASE_URL == "0.0.0.0:9876"

\* The codes nanoid!(6) draws from: 6-character strings.
CodeNames == <<"aaaaaa", "bbbbbb", "cccccc", "dddddd">>

Codes == {CodeNames[i] : i \in 1..NumCodes}

\* Request urls are byte strings.  The handler accepts any JSON string:
\* the empty string, "a", and "a\n" (a string with a control byte).
Urls == {<<>>, <<97>>, <<97, 10>>}

Req == 1..NumReq

\* #[derive(FromRow)] struct UrlRecord with #[sqlx(default)] on both fields:
\* a column the statement does not return is the empty String.
UrlRecord(i, u) == [id |-> i, url |-> u]

NoRecord == UrlRecord("", <<>>)

\* Result of the awaited query, as the handler sees it.  The errors a
\* fetch_one returns here are sqlx::Error::RowNotFound, ::Database (a
\* violated constraint) and ::Io.
Pending == [tag |-> "Pending", record |-> NoRecord, err |-> ""]

Ok(rec) == [tag |-> "Ok", record |-> rec, err |-> ""]

Err(e) == [tag |-> "Err", record |-> NoRecord, err |-> e]

\* An HTTP response: status, body and the Location header (at most one).
NoResponse == [status |-> 0, body |-> <<>>, location |-> <<>>]

Response(s, b, l) == [status |-> s, body |-> b, location |-> l]

VARIABLES
    records,    \* the rows of table urls: a set of [id, url]
    kind,       \* kind[r]: "none", "shorten" (POST /) or "redirect" (GET /:id)
    pc,         \* pc[r]: where request r is
    url,        \* url[r]: data.url of a shorten request
    id,         \* id[r]: the generated id (shorten) or the path id (redirect)
    attempts,   \* attempts[r]: how many codes shorten generated for r
    ret,        \* ret[r]: result of the awaited query
    resp        \* resp[r]: the response the client got

vars == <<records, kind, pc, url, id, attempts, ret, resp>>

\* ------------------------------------------------------- pure functions

\* Display of a sqlx::Error (err.to_string()).
SqlxToString(e) ==
    CASE e = "RowNotFound" ->
            "no rows returned by a query that expected to return at least one row"
      [] e = "Database" ->
            "error returned from database: duplicate key value violates unique constraint"
      [] e = "Io" ->
            "error communicating with database"
      [] OTHER -> ""

\* http::HeaderValue::from_str: every byte is visible ASCII, a tab, or >= 128.
IsValidHeaderByte(b) == (b >= 32 /\ b # 127) \/ b = 9

HeaderValueParses(u) == \A i \in 1..Len(u) : IsValidHeaderByte(u[i])

\* AppError values: [variant, msg].  A sqlx::Error reaches the handlers as
\* an anyhow::Error and is wrapped by map_err(AppError::InternalServer).
AppErrorInternalServer(e) == [variant |-> "InternalServer", msg |-> SqlxToString(e)]

AppErrorTimeout == [variant |-> "Timeout", msg |-> "request timed out"]

\* handle_timeout_error: the error of the timeout layer is Elapsed; any other
\* error of the stack becomes an InternalServer error.
HandleTimeoutError(err) ==
    IF err = "Elapsed"
    THEN AppErrorTimeout
    ELSE [variant |-> "InternalServer", msg |-> "Internal server error"]

\* IntoResponse as it would be without the arm for AppError::Timeout.
IntoResponseNoTimeoutArm(e) ==
    CASE e.variant = "InternalServer" -> Response(500, <<e.msg>>, <<>>)
      [] OTHER -> Response(500, <<"Internal server error">>, <<>>)

\* impl IntoResponse for AppError.
IntoResponse(e) ==
    CASE e.variant = "Timeout" -> Response(408, <<e.msg>>, <<>>)
      [] e.variant = "InternalServer" -> Response(500, <<e.msg>>, <<>>)
      [] OTHER -> Response(500, <<"Internal server error">>, <<>>)

\* Put as it would be if RETURNING gave back the proposed id instead of the
\* id of the row that holds the url.
PutReturnsProposed(recs, c, u) ==
    IF \E rec \in recs : rec.url = u
    THEN [records |-> recs, ret |-> Ok(UrlRecord(c, <<>>))]
    ELSE IF \E rec \in recs : rec.id = c
    THEN [records |-> recs, ret |-> Err("Database")]
    ELSE [records |-> recs \cup {UrlRecord(c, u)},
          ret |-> Ok(UrlRecord(c, <<>>))]

\* Put as it would be if the conflict update also took the proposed id
\* (DO UPDATE SET id = EXCLUDED.id).
PutUpdatesId(recs, c, u) ==
    IF \E rec \in recs : rec.url = u
    THEN LET rec == CHOOSE x \in recs : x.url = u
         IN  IF \E other \in recs \ {rec} : other.id = c
             THEN [records |-> recs, ret |-> Err("Database")]
             ELSE [records |-> (recs \ {rec}) \cup {UrlRecord(c, u)},
                   ret |-> Ok(UrlRecord(c, <<>>))]
    ELSE IF \E rec \in recs : rec.id = c
    THEN [records |-> recs, ret |-> Err("Database")]
    ELSE [records |-> recs \cup {UrlRecord(c, u)},
          ret |-> Ok(UrlRecord(c, <<>>))]

\* Put as it would be if id were not the primary key of the table.
PutNoPrimaryKey(recs, c, u) ==
    IF \E rec \in recs : rec.url = u
    THEN [records |-> recs,
          ret |-> Ok(UrlRecord((CHOOSE x \in recs : x.url = u).id, <<>>))]
    ELSE [records |-> recs \cup {UrlRecord(c, u)},
          ret |-> Ok(UrlRecord(c, <<>>))]

\* Put as it would be if url were not UNIQUE (a plain INSERT).
PutNoArbiter(recs, c, u) ==
    IF \E rec \in recs : rec.id = c
    THEN [records |-> recs, ret |-> Err("Database")]
    ELSE [records |-> recs \cup {UrlRecord(c, u)},
          ret |-> Ok(UrlRecord(c, <<>>))]

\* Put as it would be if a taken id were overwritten with the new url
\* (ON CONFLICT(id) DO UPDATE SET url = EXCLUDED.url).
PutOverwritesCode(recs, c, u) ==
    IF \E rec \in recs : rec.url = u
    THEN [records |-> recs,
          ret |-> Ok(UrlRecord((CHOOSE x \in recs : x.url = u).id, <<>>))]
    ELSE [records |-> {rec \in recs : rec.id # c} \cup {UrlRecord(c, u)},
          ret |-> Ok(UrlRecord(c, <<>>))]

\* Put as it would be if the primary key were checked before the url
\* arbiter: a taken id fails the insert even when the url is stored.
PutChecksPrimaryKeyFirst(recs, c, u) ==
    IF \E rec \in recs : rec.id = c /\ rec.url # u
    THEN [records |-> recs, ret |-> Err("Database")]
    ELSE IF \E rec \in recs : rec.url = u
    THEN [records |-> recs,
          ret |-> Ok(UrlRecord((CHOOSE x \in recs : x.url = u).id, <<>>))]
    ELSE [records |-> recs \cup {UrlRecord(c, u)},
          ret |-> Ok(UrlRecord(c, <<>>))]

\* INSERT INTO urls(id, url) VALUES (c, u)
\*   ON CONFLICT(url) DO UPDATE SET url = EXCLUDED.url RETURNING id
\* executed on the rows recs.  The url index is the arbiter: a row with the
\* same url turns the insert into the update of that row; otherwise a row
\* with the same id violates the primary key; otherwise the row is inserted.
Put(recs, c, u) ==
    IF \E rec \in recs : rec.url = u
    THEN LET rec == CHOOSE x \in recs : x.url = u
         IN  [records |-> (recs \ {rec}) \cup {[rec EXCEPT !.url = u]},
              ret |-> Ok(UrlRecord(rec.id, <<>>))]
    ELSE IF \E rec \in recs : rec.id = c
    THEN [records |-> recs, ret |-> Err("Database")]
    ELSE [records |-> recs \cup {UrlRecord(c, u)},
          ret |-> Ok(UrlRecord(c, <<>>))]

\* Get as it would be if the WHERE clause were missing.
GetIgnoresId(recs, c) ==
    IF recs # {}
    THEN Ok(UrlRecord("", (CHOOSE x \in recs : TRUE).url))
    ELSE Err("RowNotFound")

\* SELECT url FROM urls WHERE id = c, fetch_one.
Get(recs, c) ==
    IF \E rec \in recs : rec.id = c
    THEN Ok(UrlRecord("", (CHOOSE x \in recs : x.id = c).url))
    ELSE Err("RowNotFound")

\* ----------------------------------------------------------------- Init

\* AppState::try_new on a fresh database: the table exists and is empty.
Init ==
    /\ records = {}
    /\ kind = [r \in Req |-> "none"]
    /\ pc = [r \in Req |-> "idle"]
    /\ url = [r \in Req |-> <<>>]
    /\ id = [r \in Req |-> ""]
    /\ attempts = [r \in Req |-> 0]
    /\ ret = [r \in Req |-> Pending]
    /\ resp = [r \in Req |-> NoResponse]

\* Requests are numbered in order of arrival.
NextToArrive(r) ==
    /\ pc[r] = "idle"
    /\ \A q \in Req : q < r => pc[q] # "idle"

\* -------------------------------------------------------------- actions

\* POST / whose body is not a ShortenRequest: the Json extractor rejects it
\* and the handler body never runs.
RejectJson(r) ==
    /\ NextToArrive(r)
    /\ \E rej \in {"JsonSyntaxError", "JsonDataError"} :
          resp' = [resp EXCEPT ![r] =
                      Response(IF rej = "JsonSyntaxError" THEN 400 ELSE 422,
                               <<rej>>, <<>>)]
    /\ kind' = [kind EXCEPT ![r] = "shorten"]
    /\ pc' = [pc EXCEPT ![r] = "done"]
    /\ UNCHANGED <<records, url, id, attempts, ret>>

\* POST / with {"url": u}: handler shorten calls AppState::shorten, which
\* generates an id and sends the INSERT.
PostShorten(r) ==
    /\ NextToArrive(r)
    /\ \E u \in Urls, c \in Codes :
          /\ url' = [url EXCEPT ![r] = u]
          /\ id' = [id EXCEPT ![r] = c]
    /\ attempts' = [attempts EXCEPT ![r] = 1]
    /\ kind' = [kind EXCEPT ![r] = "shorten"]
    /\ pc' = [pc EXCEPT ![r] = "query"]
    /\ UNCHANGED <<records, ret, resp>>

\* GET /:id: handler redirect calls AppState::get_url, which sends the SELECT.
GetRedirect(r) ==
    /\ NextToArrive(r)
    /\ \E c \in Codes : id' = [id EXCEPT ![r] = c]
    /\ kind' = [kind EXCEPT ![r] = "redirect"]
    /\ pc' = [pc EXCEPT ![r] = "query"]
    /\ UNCHANGED <<records, url, attempts, ret, resp>>

\* After the statement ran: a live request waits for the result, an
\* abandoned one is over.
AfterQuery(r) == IF pc[r] = "query" THEN "answered" ELSE "done"

\* The database executes the INSERT of request r.
DbPut(r) ==
    /\ kind[r] = "shorten"
    /\ pc[r] \in {"query", "orphan"}
    /\ LET out == Put(records, id[r], url[r])
       IN  /\ records' = out.records
           /\ ret' = [ret EXCEPT ![r] = out.ret]
    /\ pc' = [pc EXCEPT ![r] = AfterQuery(r)]
    /\ UNCHANGED <<kind, url, id, attempts, resp>>

\* DbGet as it would be if a lookup consumed the row it found
\* (DELETE FROM urls WHERE id = $1 RETURNING url).
DbGetDeletes(r) ==
    /\ kind[r] = "redirect"
    /\ pc[r] \in {"query", "orphan"}
    /\ ret' = [ret EXCEPT ![r] = Get(records, id[r])]
    /\ records' = {rec \in records : rec.id # id[r]}
    /\ pc' = [pc EXCEPT ![r] = AfterQuery(r)]
    /\ UNCHANGED <<kind, url, id, attempts, resp>>

\* The database executes the SELECT of request r.
DbGet(r) ==
    /\ kind[r] = "redirect"
    /\ pc[r] \in {"query", "orphan"}
    /\ ret' = [ret EXCEPT ![r] = Get(records, id[r])]
    /\ pc' = [pc EXCEPT ![r] = AfterQuery(r)]
    /\ UNCHANGED <<records, kind, url, id, attempts, resp>>

\* The statement fails before the database runs it (connection lost, pool
\* closed): fetch_one returns an Io error.
DbUnavailable(r) ==
    /\ pc[r] = "query"
    /\ ret' = [ret EXCEPT ![r] = Err("Io")]
    /\ pc' = [pc EXCEPT ![r] = "answered"]
    /\ UNCHANGED <<records, kind, url, id, attempts, resp>>

\* What handler shorten answers for the result q of AppState::shorten.
ShortenResponse(q) ==
    IF q.tag = "Ok"
    THEN Response(201, <<"http://", BASE_URL, "/", q.record.id>>, <<>>)
    ELSE IntoResponse(AppErrorInternalServer(q.err))

\* ShortenRespond as it would be if a failed insert were tried again with a
\* new id, without a bound.
ShortenRespondRetry(r) ==
    /\ kind[r] = "shorten"
    /\ pc[r] = "answered"
    /\ IF ret[r].tag = "Err"
       THEN /\ \E c \in Codes : id' = [id EXCEPT ![r] = c]
            /\ attempts' = [attempts EXCEPT ![r] = attempts[r] + 1]
            /\ ret' = [ret EXCEPT ![r] = Pending]
            /\ pc' = [pc EXCEPT ![r] = "query"]
            /\ resp' = resp
       ELSE /\ resp' = [resp EXCEPT ![r] = ShortenResponse(ret[r])]
            /\ pc' = [pc EXCEPT ![r] = "done"]
            /\ UNCHANGED <<id, attempts, ret>>
    /\ UNCHANGED <<records, kind, url>>

\* Handler shorten resumes with the result and answers.
ShortenRespond(r) ==
    /\ kind[r] = "shorten"
    /\ pc[r] = "answered"
    /\ resp' = [resp EXCEPT ![r] = ShortenResponse(ret[r])]
    /\ pc' = [pc EXCEPT ![r] = "done"]
    /\ UNCHANGED <<records, kind, url, id, attempts, ret>>

\* Handler redirect resumes with the result: an error is answered, a url
\* is parsed into the Location header value and unwrapped.
RedirectRespond(r) ==
    /\ kind[r] = "redirect"
    /\ pc[r] = "answered"
    /\ IF ret[r].tag = "Err"
       THEN /\ resp' = [resp EXCEPT ![r] =
                           IntoResponse(AppErrorInternalServer(ret[r].err))]
            /\ pc' = [pc EXCEPT ![r] = "done"]
       ELSE IF HeaderValueParses(ret[r].record.url)
       THEN /\ resp' = [resp EXCEPT ![r] =
                           Response(308, <<>>, <<ret[r].record.url>>)]
            /\ pc' = [pc EXCEPT ![r] = "done"]
       ELSE /\ resp' = resp
            /\ pc' = [pc EXCEPT ![r] = "panicked"]
    /\ UNCHANGED <<records, kind, url, id, attempts, ret>>

\* The 30 s deadline passes while request r is in flight: the handler future
\* is dropped and handle_timeout_error answers.  A statement not yet run by
\* the database is left to it.
Timeout(r) ==
    /\ pc[r] \in {"query", "answered"}
    /\ resp' = [resp EXCEPT ![r] = IntoResponse(HandleTimeoutError("Elapsed"))]
    /\ pc' = [pc EXCEPT ![r] = IF pc[r] = "query" THEN "orphan" ELSE "done"]
    /\ UNCHANGED <<records, kind, url, id, attempts, ret>>

Next ==
    \E r \in Req :
        \/ RejectJson(r)
        \/ PostShorten(r)
        \/ GetRedirect(r)
        \/ DbPut(r)
        \/ DbGet(r)
        \/ DbUnavailable(r)
        \/ ShortenRespond(r)
        \/ RedirectRespond(r)
        \/ Timeout(r)

Spec == Init /\ [][Next]_vars

\* The tables the service can leave behind: CREATE TABLE IF NOT EXISTS keeps
\* the rows of earlier runs, any set of rows with unique ids and unique urls.
ValidStores ==
    {S \in SUBSET {UrlRecord(c, u) : c \in Codes, u \in Urls} :
        \A x, y \in S : (x.id = y.id \/ x.url = y.url) => x = y}

\* AppState::try_new on a database that earlier runs have written to.
InitStored ==
    /\ records \in ValidStores
    /\ kind = [r \in Req |-> "none"]
    /\ pc = [r \in Req |-> "idle"]
    /\ url = [r \in Req |-> <<>>]
    /\ id = [r \in Req |-> ""]
    /\ attempts = [r \in Req |-> 0]
    /\ ret = [r \in Req |-> Pending]
    /\ resp = [r \in Req |-> NoResponse]

\* The first request of a run, served alone.
NextStored ==
    \/ RejectJson(1)
    \/ PostShorten(1)
    \/ GetRedirect(1)
    \/ DbPut(1)
    \/ DbGet(1)
    \/ DbUnavailable(1)
    \/ ShortenRespond(1)
    \/ RedirectRespond(1)
    \/ Timeout(1)

\* One request on a table that already holds rows.
SpecStored == InitStored /\ [][NextStored]_vars

\* ----------------------------------------------------- claim vocabulary

\* Request r is a shorten call that returned successfully (201 Created).
Succeeded(r) == kind[r] = "shorten" /\ pc[r] = "done" /\ resp[r].status = 201

\* The code in the short link of a successful response:
\* "http://" BASE_URL "/" id.
ReturnedCode(r) == resp[r].body[4]

\* The rows of the table that hold url u.
RecordsOf(u) == {rec \in records : rec.url = u}

\* The database ran the statement of request r and it did not fail.
StatementOk(r) == ret[r].tag = "Ok"

\* ---------------------------------------------------------------- C1

\* C1 (concurrency convergence): in every reachable state, under every
\* interleaving and every choice of proposed codes, any two shorten calls
\* for the same url that returned successfully returned the same code, the
\* table never holds more than one row for a url, and once a call for u
\* has returned successfully the table holds exactly one row for u, the
\* row with the returned code.
ConcurrentShortenConverges ==
    /\ \A r, s \in Req :
          (Succeeded(r) /\ Succeeded(s) /\ url[r] = url[s])
              => ReturnedCode(r) = ReturnedCode(s)
    /\ \A u \in Urls : Cardinality(RecordsOf(u)) <= 1
    /\ \A r \in Req :
          Succeeded(r) => RecordsOf(url[r]) = {UrlRecord(ReturnedCode(r), url[r])}

\* Two calls for the same url were in flight together with different
\* proposed codes; the call that arrived first lost the race and returned
\* the code proposed by the other, whose insert has run too.
ConcurrentShortenWitness ==
    /\ Succeeded(1)
    /\ kind[2] = "shorten" /\ pc[2] = "answered" /\ StatementOk(2)
    /\ url[1] = url[2]
    /\ id[1] # id[2]
    /\ ReturnedCode(1) = id[2]
    /\ ret[2].record.id = id[2]
    /\ Cardinality(RecordsOf(url[1])) = 1

\* ---------------------------------------------------------------- C2

\* The step in which the database runs the insert of call r, for a url
\* that call s already returned a code for.
IdempotentStep(r, s) ==
    (/\ kind[r] = "shorten"
     /\ pc[r] \in {"query", "orphan"}
     /\ ret'[r].tag = "Ok"
     /\ s # r
     /\ Succeeded(s)
     /\ url[s] = url[r])
        => /\ records' = records
           /\ Cardinality(RecordsOf(url[r])) = 1
           /\ ret'[r].record.id = ReturnedCode(s)
           /\ ReturnedCode(s) # id[r] =>
                  UrlRecord(id[r], url[r]) \notin records'
           /\ ShortenResponse(ret'[r]) = resp[s]

\* C2 (idempotence): whenever the database runs the insert of a shorten
\* call for a url that an earlier call already returned a code for, the
\* table is left exactly as it was (no row added, the proposed code bound
\* to nothing new) and the statement returns the code of the earlier call;
\* and the response built from that result carries that same code.
ShortenIsIdempotent == [][\A r, s \in Req : IdempotentStep(r, s)]_vars

\* The second of two calls for the same url proposed a different code and
\* was answered with the code of the first; the table holds one row.
ShortenTwiceWitness ==
    /\ Succeeded(1) /\ Succeeded(2)
    /\ url[1] = url[2]
    /\ id[1] # id[2]
    /\ ReturnedCode(1) = id[1]
    /\ ReturnedCode(2) = id[1]
    /\ records = {UrlRecord(id[1], url[1])}

\* ---------------------------------------------------------------- C3

\* C3 (round trip): in every state after a shorten call for u returned the
\* code c, a lookup of c in the table yields u unchanged; and every url a
\* redirect request got from the database is the url stored under the id
\* it asked for.
RoundTrip ==
    /\ \A s \in Req :
          Succeeded(s) =>
              Get(records, ReturnedCode(s)) = Ok(UrlRecord("", url[s]))
    /\ \A r \in Req :
          (kind[r] = "redirect" /\ StatementOk(r)) =>
              UrlRecord(id[r], ret[r].record.url) \in records

\* A url with a control byte was shortened and the code then resolved to it.
RoundTripWitness ==
    /\ Succeeded(1)
    /\ url[1] = <<97, 10>>
    /\ kind[2] = "redirect"
    /\ id[2] = ReturnedCode(1)
    /\ StatementOk(2)
    /\ ret[2].record.url = url[1]

\* ---------------------------------------------------------------- C4

\* Request r is a shorten call whose insert hit a code bound to another url.
Collided(r) == kind[r] = "shorten" /\ ret[r].tag = "Err" /\ ret[r].err = "Database"

\* C4 (collision retry): a code collision is never surfaced to the caller
\* before the retry budget of 5 generated codes is used up: no shorten call
\* that generated fewer than 5 codes is answered with the error of a
\* collision.
CollisionIsRetried ==
    \A r \in Req :
        (Collided(r) /\ pc[r] = "done" /\ attempts[r] < 5)
            => resp[r].status # 500

\* ---------------------------------------------------------------- C5

\* C5 (not found): a redirect request for an id that the table does not
\* hold, answered by the handler, is answered with 404 Not Found.
NotFoundIs404 ==
    \A r \in Req :
        (/\ kind[r] = "redirect"
         /\ pc[r] = "done"
         /\ ret[r].tag = "Err"
         /\ ret[r].err = "RowNotFound"
         /\ resp[r] # IntoResponse(AppErrorTimeout))
            => resp[r].status = 404

\* ---------------------------------------------------------------- C6

\* C6 (uniqueness): no two shorten calls for different urls get the same
\* code, neither from the database nor in their responses, also when the
\* generator proposed the same code for both.
DistinctUrlsDistinctCodes ==
    \A r, s \in Req :
        (kind[r] = "shorten" /\ kind[s] = "shorten" /\ url[r] # url[s])
            => /\ (StatementOk(r) /\ StatementOk(s))
                      => ret[r].record.id # ret[s].record.id
               /\ (Succeeded(r) /\ Succeeded(s))
                      => ReturnedCode(r) # ReturnedCode(s)

\* The generator proposed the same code for two different urls: the first
\* call returned it, the second was refused by the database.
SameProposalWitness ==
    /\ Succeeded(1)
    /\ kind[2] = "shorten" /\ pc[2] = "done"
    /\ url[1] # url[2]
    /\ id[1] = id[2]
    /\ ReturnedCode(1) = id[1]
    /\ Collided(2)
    /\ resp[2].status = 500

\* ---------------------------------------------------------------- C7

\* C7 (store invariant): in every reachable state no two rows share an id,
\* no two rows share a url, and every row is a whole row: a generated code
\* together with a request url.
StoreInvariant ==
    /\ \A x, y \in records : (x.id = y.id \/ x.url = y.url) => x = y
    /\ records \subseteq {UrlRecord(c, u) : c \in Codes, u \in Urls}

\* The table holds a row written by a request that was abandoned, next to a
\* request that failed.
StoreAfterAbandonWitness ==
    /\ kind[1] = "shorten" /\ pc[1] = "done"
    /\ resp[1].status = 408
    /\ records = {UrlRecord(id[1], url[1])}
    /\ Collided(2) /\ pc[2] = "done"

\* ---------------------------------------------------------------- C8

\* The steps that abandon request r, or end an abandoned request.
TimeoutStep(r) ==
    /\ Timeout(r) =>
          /\ resp'[r].status = 408
          /\ resp'[r].status # IntoResponse(AppErrorInternalServer("Io")).status
          /\ records' = records
    /\ (pc[r] = "orphan" /\ pc'[r] # "orphan") =>
          /\ resp'[r] = resp[r]
          /\ resp[r].status = 408
          /\ records' \in {records, records \cup {UrlRecord(id[r], url[r])}}

\* C8 (timeout): a step that abandons an in-flight request answers it with
\* 408 Request Timeout, which is not the status of an internal error, and
\* changes no row; the statement an abandoned shorten left behind then
\* either adds its whole row, or changes nothing, and the answer stays.
TimeoutIs408 == [][\A r \in Req : TimeoutStep(r)]_vars

\* A shorten request and a redirect request were both abandoned; the
\* insert of the first ran afterwards and left its whole row.
AbandonedWitness ==
    /\ kind[1] = "shorten" /\ pc[1] = "done" /\ StatementOk(1)
    /\ resp[1] = Response(408, <<"request timed out">>, <<>>)
    /\ UrlRecord(id[1], url[1]) \in records
    /\ kind[2] = "redirect" /\ pc[2] = "orphan"
    /\ resp[2].status = 408

\* ---------------------------------------------------------------- C9

\* C9 (bounded attempts): a shorten call generates one code; when its
\* insert collides it is not tried again: the call is answered with 500
\* (or abandoned with 408) and its row is not stored, while the rows and the
\* answers of the other requests are untouched by the failure.
BoundedAttempts ==
    \A r \in Req :
        /\ attempts[r] <= 1
        /\ Collided(r) =>
              /\ pc[r] \in {"answered", "done"}
              /\ UrlRecord(id[r], url[r]) \notin records
              /\ pc[r] = "done" => resp[r].status \in {500, 408}
              /\ \A s \in Req \ {r} :
                    Succeeded(s) => UrlRecord(ReturnedCode(s), url[s]) \in records

\* A call collided and was answered with 500 after one attempt, and the
\* other request was served.
RetryExhaustedWitness ==
    /\ Collided(2) /\ pc[2] = "done"
    /\ attempts[2] = 1
    /\ resp[2] = Response(500, <<SqlxToString("Database")>>, <<>>)
    /\ Succeeded(1)
    /\ records = {UrlRecord(ReturnedCode(1), url[1])}

\* --------------------------------------------------------------- C10

\* C10 (redirect): a redirect request whose id the table holds, once the
\* handler has resumed with the url, is answered with 308 Permanent
\* Redirect and a Location header equal to the stored url; the handler
\* never panics.
RedirectAnswers ==
    \A r \in Req :
        (kind[r] = "redirect" /\ StatementOk(r) /\ pc[r] \notin {"answered", "orphan"})
            => \/ resp[r] = Response(308, <<>>, <<ret[r].record.url>>) /\ pc[r] = "done"
               \/ resp[r] = IntoResponse(AppErrorTimeout) /\ pc[r] = "done"

\* --------------------------------------------------------------- C11

\* C11 (non-empty url): a shorten call with the empty string is rejected:
\* it is never answered with 201 Created, and the table never holds a row
\* whose url is the empty string.
EmptyUrlRejected ==
    /\ \A r \in Req :
          (kind[r] = "shorten" /\ url[r] = <<>>) => resp[r].status # 201
    /\ RecordsOf(<<>>) = {}

\* --------------------------------------------------------------- C12

\* C12 (generic internal failure): any two requests answered with 500 get
\* the same body, whatever storage error each of them failed with.
InternalBodyIsGeneric ==
    \A r, s \in Req :
        (/\ pc[r] = "done" /\ pc[s] = "done"
         /\ resp[r].status = 500 /\ resp[s].status = 500
         /\ ret[r].err # ret[s].err)
            => resp[r].body = resp[s].body

\* --------------------------------------------------------------- C13

\* The step in which the statement of shorten call r ends, when its url is
\* not stored and its proposed code is bound to another url.
CollisionStep(r) ==
    (/\ kind[r] = "shorten"
     /\ pc[r] \in {"query", "orphan"}
     /\ ret'[r] # ret[r]
     /\ RecordsOf(url[r]) = {}
     /\ \E rec \in records : rec.id = id[r] /\ rec.url # url[r])
        => /\ ret'[r].tag = "Err"
           /\ ShortenResponse(ret'[r]).status # 201
           /\ records' = records

\* C13 (code collision): an insert whose proposed code is bound to a
\* different url, for a url that is not stored, fails (its result is an
\* error, not a code) and leaves the table as it was: the code keeps its
\* url and no row for the new url appears.
CollisionLeavesStore == [][\A r \in Req : CollisionStep(r)]_vars

\* The insert of the second call has just been refused: its code is bound to
\* the url of the first call, and the table holds only that row.
CollisionWitness ==
    /\ kind[2] = "shorten" /\ pc[2] = "answered"
    /\ Collided(2)
    /\ url[2] # url[1]
    /\ records = {UrlRecord(id[2], url[1])}

\* --------------------------------------------------------------- C14

\* C14 (records only grow): no step of any request, successful, failed or
\* abandoned, removes or changes a row: every row of the table is a row of
\* the table after the step.
RecordsOnlyGrow == [][records \subseteq records']_vars

\* A row survived a second shorten of its url, with another proposed code,
\* by a request that was abandoned and whose insert ran afterwards.
RecordSurvivesWitness ==
    /\ Succeeded(1)
    /\ kind[2] = "shorten" /\ pc[2] = "done"
    /\ resp[2].status = 408
    /\ StatementOk(2)
    /\ url[2] = url[1]
    /\ id[2] # id[1]
    /\ records = {UrlRecord(id[1], url[1])}

\* --------------------------------------------------------------- C15

\* A step of redirect request r: it arrives, its SELECT runs or fails, it
\* is answered, or it is abandoned.
RedirectStep(r) ==
    /\ kind'[r] = "redirect"
    /\ \/ pc'[r] # pc[r]
       \/ ret'[r] # ret[r]
       \/ resp'[r] # resp[r]

\* C15 (get has no side effects): every step of a redirect request,
\* whether its lookup finds a row or not, leaves the table exactly as it
\* was.
GetLeavesStore == [][\A r \in Req : RedirectStep(r) => records' = records]_vars

\* A lookup of a stored code was answered with its url, and the table still
\* holds the row.
GetWitness ==
    /\ kind[2] = "redirect" /\ pc[2] = "done"
    /\ resp[2] = Response(308, <<>>, <<url[1]>>)
    /\ url[1] = <<97>>
    /\ records = {UrlRecord(id[2], url[1])}

\* --------------------------------------------------------------- C16

\* The step in which the database runs the insert of shorten call r, when
\* its url is stored and its proposed code is bound to another url.
PrecedenceStep(r) ==
    (/\ kind[r] = "shorten"
     /\ pc[r] \in {"query", "orphan"}
     /\ ret'[r] # ret[r]
     /\ ret'[r].err # "Io"
     /\ RecordsOf(url[r]) # {}
     /\ \E rec \in records : rec.id = id[r] /\ rec.url # url[r])
        => LET c1 == (CHOOSE rec \in records : rec.url = url[r]).id
           IN  /\ c1 # id[r]
               /\ ret'[r] = Ok(UrlRecord(c1, <<>>))
               /\ ShortenResponse(ret'[r]) =
                      Response(201, <<"http://", BASE_URL, "/", c1>>, <<>>)
               /\ records' = records

\* C16 (url conflict before code collision): when shorten is called for a
\* url stored with code c1 and the proposed code c2 is bound to a different
\* url, the insert succeeds with c1, the answer is 201 with the short link
\* of c1, and the table is unchanged.
UrlConflictTakesPrecedence == [][\A r \in Req : PrecedenceStep(r)]_vars

\* A call for a stored url proposed the code of another row and returned
\* the code of its own row; the table holds the same two rows.
PrecedenceWitness ==
    /\ Succeeded(1)
    /\ ReturnedCode(1) # id[1]
    /\ UrlRecord(ReturnedCode(1), url[1]) \in records
    /\ \E rec \in records : rec.id = id[1] /\ rec.url # url[1]
    /\ Cardinality(records) = 2

====
